---- MODULE Spec2Model ----
(***************************************************************************)
(* The vsync I/O engine of engines/sync.c: requests (struct io_u) are      *)
(* queued into one pending batch (struct syncio_data), flushed by one      *)
(* lseek plus one readv/writev at commit, and reaped with getevents/event. *)
(*                                                                         *)
(* Modelling notes.                                                        *)
(*  - An io_u is a caller-owned object; the engine keeps pointers to it in *)
(*    sd->io_us[].  Pointers are the identifiers in IoUs, 0 is a slot that *)
(*    was never written.  The map io_u holds the fields of the objects in  *)
(*    flight (a slot below sd->queued points to them); an object that is   *)
(*    not in flight belongs to the caller alone and is NoReq here.         *)
(*  - iov_base (the buffer address) plays no part in the control flow and  *)
(*    is left out; iovecs[] holds iov_len.                                 *)
(*  - last_offset starts as -1ULL (all ones); no request offset of the     *)
(*    model has that value, it is written -1 here.  Byte counts stay far   *)
(*    below the width of unsigned long, so (unsigned long) -1 never equals *)
(*    queued_bytes.                                                        *)
(*  - fio_ro_check() is an assertion of the host and changes no state.     *)
(*  - lseek, readv/writev and fsync are the operating system: their result *)
(*    is an input of the step (\E).                                        *)
(*  - last, xferred and run are history variables: the latest call and its *)
(*    result, whether the request of a slot has been part of a vectored    *)
(*    transfer since it was queued, and the run of contiguous requests     *)
(*    queued since the batch was empty.  order is the sequence of objects  *)
(*    accepted into the pending batch since its count was 0, retry the     *)
(*    request that was answered BUSY and is to be handed in again (it is   *)
(*    followed by SpecRetry, the caller that reacts to BUSY).              *)
(***************************************************************************)
EXTENDS Integers, Sequences, FiniteSets, TLC

\* ---- bounds of the model ----
MaxDepth == 2
MaxOffset == 2
MaxLen == 2

\* ---- input sets ----
Files == {1, 2}
Errnos == {5}
Depths == 1..MaxDepth
Offsets == 0..MaxOffset
Lens == 1..MaxLen
IoUs == 1..(MaxDepth + 1)
\* xfer_buflen of a sync-barrier io_u
SyncLens == {0, 1}
\* resid and error of an io_u as the caller hands it in: a new request, its
\* completion fields not filled in yet
Cleared == {[resid |-> 0, error |-> 0]}
\* resid and error of an io_u the caller hands in again after an earlier short
\* or failed transfer, as fio_vsyncio_end left them
LeftOver == {[resid |-> 1, error |-> 0], [resid |-> 0, error |-> 5]}

VARIABLES iodepth, sd, io_u, last, xferred, run, order, retry

vars == <<iodepth, sd, io_u, last, xferred, run, order, retry>>

Slots == 0..(iodepth - 1)

\* an object that is not in flight
NoReq == [id |-> 0, ddir |-> "NONE", file |-> 0, offset |-> 0,
          xfer_buflen |-> 0, resid |-> 0, error |-> 0]

NoRun == [n |-> 0, bytes |-> 0, allq |-> TRUE, ids |-> <<>>,
          endoff |-> 0, file |-> 0, ddir |-> "NONE", st |-> "none"]

\* no batch followed / no request to hand in again
NoOrder == [ids |-> <<>>, st |-> "none"]

NoRetry == [st |-> "none", id |-> 0, ddir |-> "NONE", file |-> 0, offset |-> 0,
            xfer_buflen |-> 0]

Min(a, b) == IF a < b THEN a ELSE b

RECURSIVE SumTo(_, _)
\* sum of f[0] .. f[n-1]
SumTo(f, n) == IF n = 0 THEN 0 ELSE f[n - 1] + SumTo(f, n - 1)

\* ---- the caller's side: which io_u objects may be handed in ----

\* the pointers in the slots below sd->queued
InFlight(s) == {s.io_us[i] : i \in {j \in DOMAIN s.io_us : j < s.queued}}

\* The caller hands in an object that is not in flight; the objects are
\* interchangeable, the lowest free one is taken.
NextIoU(s) == CHOOSE p \in IoUs \ InFlight(s) : \A q \in IoUs \ InFlight(s) : p <= q

\* the objects in flight after a call: the object just stored, the objects
\* still in flight, and NoReq for the rest
Track(ios, s, r, stored) ==
  [p \in IoUs |-> IF p \notin InFlight(s) THEN NoReq
                  ELSE IF stored /\ p = r.id THEN r
                  ELSE ios[p]]

\* ---- fio_io_end (the immediate path, used for a sync-barrier) ----

\* the io_u after fio_io_end(td, io_u, ret) with errno = err
fio_io_end(r, ret, err) ==
  IF ret # r.xfer_buflen
    THEN IF ret >= 0
           THEN [r EXCEPT !.resid = r.xfer_buflen - ret, !.error = 0]
           ELSE [r EXCEPT !.error = err]
    ELSE r

\* ---- fio_vsyncio_getevents / fio_vsyncio_event ----

fio_vsyncio_getevents(s, min, max) ==
  IF min # 0
    THEN [sd |-> [s EXCEPT !.queued = 0], ret |-> s.queued]
    ELSE [sd |-> s, ret |-> 0]

\* mutant: the first slot is returned whatever the index
fio_vsyncio_event_first(s, event) == s.io_us[0]

fio_vsyncio_event(s, event) == s.io_us[event]

\* ---- fio_vsyncio_append / fio_vsyncio_set_iov / fio_vsyncio_queue ----

\* mutant: the file is left out of the comparison
fio_vsyncio_append_nofile(s, r) ==
  IF r.ddir = "SYNC"
    THEN FALSE
    ELSE r.offset = s.last_offset /\ r.ddir = s.last_ddir

fio_vsyncio_append(s, r) ==
  IF r.ddir = "SYNC"
    THEN FALSE
    ELSE r.offset = s.last_offset /\ r.file = s.last_file /\ r.ddir = s.last_ddir

\* mutant: last_offset is set to the start of the request, not to its end
fio_vsyncio_set_iov_start(s, r, index) ==
  [s EXCEPT !.io_us[index] = r.id,
            !.iovecs[index] = r.xfer_buflen,
            !.last_offset = r.offset,
            !.last_file = r.file,
            !.last_ddir = r.ddir,
            !.queued_bytes = s.queued_bytes + r.xfer_buflen,
            !.queued = s.queued + 1]

fio_vsyncio_set_iov(s, r, index) ==
  [s EXCEPT !.io_us[index] = r.id,
            !.iovecs[index] = r.xfer_buflen,
            !.last_offset = r.offset + r.xfer_buflen,
            !.last_file = r.file,
            !.last_ddir = r.ddir,
            !.queued_bytes = s.queued_bytes + r.xfer_buflen,
            !.queued = s.queued + 1]

\* mutants of the depth test: one slot early, one slot late, never
DepthReached_early(s, depth) == s.queued + 1 >= depth

DepthReached_late(s, depth) == s.queued > depth

DepthReached_never(s, depth) == FALSE

\* the depth test of the append branch
DepthReached(s, depth) == s.queued = depth

\* mutant: the count and the bytes are reset before the sync-barrier is told apart
fio_vsyncio_queue_reset(s, depth, r, fsync_ret, err) ==
  IF ~fio_vsyncio_append(s, r)
    THEN IF s.queued # 0
           THEN [sd |-> s, ret |-> "BUSY", io_u |-> r, index |-> -1, fsync |-> FALSE]
           ELSE IF r.ddir = "SYNC"
             THEN [sd |-> [s EXCEPT !.queued = 0, !.queued_bytes = 0],
                   ret |-> "COMPLETED",
                   io_u |-> fio_io_end(r, fsync_ret, err), index |-> -1,
                   fsync |-> TRUE]
             ELSE [sd |-> fio_vsyncio_set_iov(
                            [s EXCEPT !.queued = 0, !.queued_bytes = 0], r, 0),
                   ret |-> "QUEUED", io_u |-> r, index |-> 0, fsync |-> FALSE]
    ELSE IF DepthReached(s, depth)
           THEN [sd |-> s, ret |-> "BUSY", io_u |-> r, index |-> -1, fsync |-> FALSE]
           ELSE [sd |-> fio_vsyncio_set_iov(s, r, s.queued),
                 ret |-> "QUEUED", io_u |-> r, index |-> s.queued, fsync |-> FALSE]

\* fio_vsyncio_queue(td, io_u): the engine state after the call, the return
\* value, the io_u after the call, and the slot written (-1: none).
\* fsync_ret/err are the result of fsync(2) should the call issue it.
fio_vsyncio_queue(s, depth, r, fsync_ret, err) ==
  IF ~fio_vsyncio_append(s, r)
    THEN IF s.queued # 0
           THEN [sd |-> s, ret |-> "BUSY", io_u |-> r, index |-> -1, fsync |-> FALSE]
           ELSE IF r.ddir = "SYNC"
             THEN [sd |-> s, ret |-> "COMPLETED",
                   io_u |-> fio_io_end(r, fsync_ret, err), index |-> -1,
                   fsync |-> TRUE]
             ELSE [sd |-> fio_vsyncio_set_iov(
                            [s EXCEPT !.queued = 0, !.queued_bytes = 0], r, 0),
                   ret |-> "QUEUED", io_u |-> r, index |-> 0, fsync |-> FALSE]
    ELSE IF DepthReached(s, depth)
           THEN [sd |-> s, ret |-> "BUSY", io_u |-> r, index |-> -1, fsync |-> FALSE]
           ELSE [sd |-> fio_vsyncio_set_iov(s, r, s.queued),
                 ret |-> "QUEUED", io_u |-> r, index |-> s.queued, fsync |-> FALSE]

\* ---- fio_vsyncio_end / fio_vsyncio_commit ----

\* mutant: the share of a request is not limited to its length
this_io_noclamp(bytes, r) == bytes

\* this_io of the loop: the bytes left, at most the length of the request
this_io(bytes, r) == Min(bytes, r.xfer_buflen)

RECURSIVE EndLoop(_, _, _, _, _)
\* the for loop of fio_vsyncio_end from index i on, with `bytes` left
EndLoop(s, ios, i, bytes, err) ==
  IF i >= s.queued
    THEN [io_u |-> ios, bytes |-> bytes]
    ELSE LET p == s.io_us[i] IN
         IF bytes = -1
           THEN EndLoop(s, [ios EXCEPT ![p].error = err], i + 1, bytes, err)
           ELSE LET n == this_io(bytes, ios[p]) IN
                EndLoop(s, [ios EXCEPT ![p].resid = ios[p].xfer_buflen - n,
                                       ![p].error = 0],
                        i + 1, bytes - n, err)

\* mutant: the error code is returned with the wrong sign
fio_vsyncio_end_sign(s, ios, bytes, err) ==
  IF bytes # -1 /\ bytes = s.queued_bytes
    THEN [io_u |-> ios, ret |-> 0]
    ELSE LET e == EndLoop(s, ios, 0, bytes, err) IN
         [io_u |-> e.io_u, ret |-> IF e.bytes = -1 THEN err ELSE 0]

\* fio_vsyncio_end(td, bytes) with errno = err: the io_us and the return value.
\* bytes is compared as unsigned long: -1 is ULONG_MAX, never queued_bytes here.
fio_vsyncio_end(s, ios, bytes, err) ==
  IF bytes # -1 /\ bytes = s.queued_bytes
    THEN [io_u |-> ios, ret |-> 0]
    ELSE LET e == EndLoop(s, ios, 0, bytes, err) IN
         [io_u |-> e.io_u, ret |-> IF e.bytes = -1 THEN -err ELSE 0]

\* the bytes readv/writev is asked to move: the iov_len of the first queued iovecs
IovTotal(s) == SumTo(s.iovecs, s.queued)

\* what the vectored transfer of the pending batch can return
XferResults(s) ==
  [bytes : 0..IovTotal(s), err : {0}] \cup [bytes : {-1}, err : Errnos]

\* mutant: commit resets the count and the bytes once the transfer has run
fio_vsyncio_commit_clears(s, ios, pos, pos_err, x) ==
  IF s.queued = 0
    THEN [sd |-> s, io_u |-> ios, ret |-> 0, kind |-> "noop"]
    ELSE IF pos = -1
      THEN [sd |-> s, io_u |-> ios, ret |-> -pos_err, kind |-> "lseek"]
      ELSE LET e == fio_vsyncio_end(s, ios, x.bytes, x.err) IN
           [sd |-> [s EXCEPT !.queued = 0, !.queued_bytes = 0],
            io_u |-> e.io_u, ret |-> e.ret, kind |-> "xfer"]

\* mutant: a failed lseek drops the pending batch
fio_vsyncio_commit_drop(s, ios, pos, pos_err, x) ==
  IF s.queued = 0
    THEN [sd |-> s, io_u |-> ios, ret |-> 0, kind |-> "noop"]
    ELSE IF pos = -1
      THEN [sd |-> [s EXCEPT !.queued = 0], io_u |-> ios, ret |-> -pos_err,
            kind |-> "lseek"]
      ELSE LET e == fio_vsyncio_end(s, ios, x.bytes, x.err) IN
           [sd |-> s, io_u |-> e.io_u, ret |-> e.ret, kind |-> "xfer"]

\* mutant: the test for an empty batch is left out
fio_vsyncio_commit_noguard(s, ios, pos, pos_err, x) ==
  IF pos = -1
    THEN [sd |-> s, io_u |-> ios, ret |-> -pos_err, kind |-> "lseek"]
    ELSE LET e == fio_vsyncio_end(s, ios, x.bytes, x.err) IN
         [sd |-> s, io_u |-> e.io_u, ret |-> e.ret, kind |-> "xfer"]

\* fio_vsyncio_commit(td): pos is the result of lseek (0, or -1 with
\* errno = pos_err), x the result of readv/writev (used when it is issued).
fio_vsyncio_commit(s, ios, pos, pos_err, x) ==
  IF s.queued = 0
    THEN [sd |-> s, io_u |-> ios, ret |-> 0, kind |-> "noop"]
    ELSE IF pos = -1
      THEN [sd |-> s, io_u |-> ios, ret |-> -pos_err, kind |-> "lseek"]
      ELSE LET e == fio_vsyncio_end(s, ios, x.bytes, x.err) IN
           [sd |-> s, io_u |-> e.io_u, ret |-> e.ret, kind |-> "xfer"]

\* ---- fio_vsyncio_init ----

fio_vsyncio_init(depth) ==
  [io_us |-> [i \in 0..(depth - 1) |-> 0],
   iovecs |-> [i \in 0..(depth - 1) |-> 0],
   queued |-> 0,
   queued_bytes |-> 0,
   last_offset |-> -1,
   last_file |-> 0,
   last_ddir |-> "READ"]

\* ---- the requests the caller hands in ----

Requests(s, V) ==
  {[id |-> NextIoU(s), ddir |-> d, file |-> f, offset |-> o, xfer_buflen |-> l,
    resid |-> v.resid, error |-> v.error] :
     d \in {"READ", "WRITE"}, f \in Files, o \in Offsets, l \in Lens, v \in V}
  \cup
  {[id |-> NextIoU(s), ddir |-> "SYNC", file |-> f, offset |-> 0, xfer_buflen |-> l,
    resid |-> v.resid, error |-> v.error] :
     f \in Files, l \in SyncLens, v \in V}

\* what fsync(2) and lseek(2) can return: 0, or -1 with errno set
SysResults == [ret : {0}, err : {0}] \cup [ret : {-1}, err : Errnos]

\* the (min, max) a poll is called with
PollArgs(depth) == {a \in [min : {0, 1, depth}, max : {1, depth}] : a.min <= a.max}

\* how a request stands to the pending batch s: a sync-barrier, mergeable
\* (offset at the tracked end-offset, same file, same direction) or not
Class(s, r) ==
  IF r.ddir = "SYNC" THEN "sync"
  ELSE IF r.offset = s.last_offset /\ r.file = s.last_file /\ r.ddir = s.last_ddir
    THEN "merge"
    ELSE "nomerge"

\* the record of the latest call
Call(op) ==
  [op |-> op, q |-> "-", r |-> 0, cls |-> "-", wrote |-> FALSE, fsync |-> FALSE,
   kind |-> "-", bytes |-> 0, err |-> 0, min |-> 0, max |-> 0, index |-> -1,
   events |-> 0, resub |-> FALSE]

\* ---- history of the run of contiguous requests since the batch was empty ----

\* r continues the run u: same file, same direction, offset at its end
Continues(u, r) ==
  u.st = "open" /\ r.offset = u.endoff /\ r.file = u.file /\ r.ddir = u.ddir

RunAfterQueue(u, s, depth, r, ret) ==
  IF r.ddir = "SYNC" \/ r.resid # 0 \/ r.error # 0
    THEN NoRun
    ELSE IF s.queued = 0
      THEN [n |-> 1, bytes |-> r.xfer_buflen, allq |-> (ret = "QUEUED"),
            ids |-> <<r.id>>, endoff |-> r.offset + r.xfer_buflen,
            file |-> r.file, ddir |-> r.ddir, st |-> "open"]
      ELSE IF Continues(u, r) /\ u.n < depth
        THEN [n |-> u.n + 1, bytes |-> u.bytes + r.xfer_buflen,
              allq |-> (u.allq /\ ret = "QUEUED"),
              ids |-> Append(u.ids, r.id), endoff |-> r.offset + r.xfer_buflen,
              file |-> r.file, ddir |-> r.ddir, st |-> "open"]
        ELSE NoRun

RunAfterCommit(u, c, x) ==
  IF u.st = "open" /\ c.kind = "xfer" /\ x.bytes = u.bytes
    THEN [u EXCEPT !.st = "full"]
    ELSE NoRun

\* ---- history of the submission order of the pending batch ----

\* a request answered QUEUED is the first of the batch when the count was 0,
\* else the next one; a request refused while the batch is being filled
\* leaves it as it is; any other submit ends the history
OrderAfterQueue(o, s, r, ret) ==
  IF ret = "BUSY" THEN (IF o.st = "open" THEN o ELSE NoOrder)
  ELSE IF ret # "QUEUED" THEN NoOrder
  ELSE IF s.queued = 0 THEN [ids |-> <<r.id>>, st |-> "open"]
  ELSE IF o.st = "none" THEN NoOrder
  ELSE [ids |-> Append(o.ids, r.id), st |-> "open"]

\* a commit whose transfer ran has committed the batch
OrderAfterCommit(o, c) ==
  IF o.st \in {"open", "committed"} /\ c.kind = "xfer"
    THEN [o EXCEPT !.st = "committed"]
    ELSE o

\* a poll that returns the whole committed batch lets it be fetched
OrderAfterGetEvents(o, min, ret) ==
  IF min = 0 THEN o
  ELSE IF o.st = "committed" /\ ret = Len(o.ids) THEN [o EXCEPT !.st = "polled"]
  ELSE NoOrder

\* ---- history of a request answered BUSY ----

\* what the request asks for, and the object it is
Asked(r, st) ==
  [st |-> st, id |-> r.id, ddir |-> r.ddir, file |-> r.file, offset |-> r.offset,
   xfer_buflen |-> r.xfer_buflen]

\* r is the request answered BUSY, handed in again right after a commit
\* whose positioning succeeded
Resubmitted(y, r) == y.st = "committed" /\ y = Asked(r, "committed")

RetryAfterQueue(r, ret) == IF ret = "BUSY" THEN Asked(r, "busy") ELSE NoRetry

RetryAfterCommit(y, c) ==
  IF y.st = "busy" /\ c.kind = "xfer" THEN [y EXCEPT !.st = "committed"] ELSE NoRetry

\* ---- the state machine ----

Init ==
  /\ iodepth \in Depths
  /\ sd = fio_vsyncio_init(iodepth)
  /\ io_u = [p \in IoUs |-> NoReq]
  /\ last = Call("init")
  /\ xferred = [i \in Slots |-> FALSE]
  /\ run = NoRun
  /\ order = NoOrder
  /\ retry = NoRetry

Queue ==
  \E r \in Requests(sd, Cleared \cup LeftOver), f \in SysResults :
    LET c == fio_vsyncio_queue(sd, iodepth, r, f.ret, f.err) IN
    /\ (~c.fsync => f.ret = 0)
    /\ sd' = c.sd
    /\ io_u' = Track(io_u, c.sd, c.io_u, c.ret = "QUEUED")
    /\ last' = [Call("queue") EXCEPT !.q = c.ret, !.cls = Class(sd, r),
                                     !.wrote = (c.io_u # r),
                                     !.fsync = c.fsync,
                                     !.index = c.index,
                                     !.r = IF c.fsync THEN f.ret ELSE 0,
                                     !.err = IF c.fsync THEN f.err ELSE 0]
    /\ xferred' = IF c.index \in Slots THEN [xferred EXCEPT ![c.index] = FALSE]
                   ELSE xferred
    /\ run' = RunAfterQueue(run, sd, iodepth, r, c.ret)
    /\ order' = OrderAfterQueue(order, sd, r, c.ret)
    /\ UNCHANGED <<iodepth, retry>>

Commit ==
  \E pos \in SysResults, x \in XferResults(sd) :
    LET c == fio_vsyncio_commit(sd, io_u, pos.ret, pos.err, x) IN
    /\ (c.kind = "noop" => pos.ret = 0 /\ x.bytes = 0)
    /\ (c.kind = "lseek" => x.bytes = 0)
    /\ sd' = c.sd
    /\ io_u' = Track(c.io_u, c.sd, NoReq, FALSE)
    /\ last' = [Call("commit") EXCEPT !.r = c.ret, !.kind = c.kind,
                  !.bytes = IF c.kind = "xfer" THEN x.bytes ELSE 0,
                  !.err = IF c.kind = "xfer" THEN x.err
                          ELSE IF c.kind = "lseek" THEN pos.err ELSE 0]
    /\ xferred' = IF c.kind = "xfer"
                    THEN [i \in Slots |-> i < sd.queued \/ xferred[i]]
                    ELSE xferred
    /\ run' = RunAfterCommit(run, c, x)
    /\ order' = OrderAfterCommit(order, c)
    /\ UNCHANGED <<iodepth, retry>>

GetEvents ==
  \E a \in PollArgs(iodepth) :
    LET c == fio_vsyncio_getevents(sd, a.min, a.max) IN
    /\ sd' = c.sd
    /\ io_u' = Track(io_u, c.sd, NoReq, FALSE)
    /\ last' = [Call("getevents") EXCEPT !.r = c.ret, !.min = a.min, !.max = a.max,
                                         !.events = c.ret]
    /\ run' = NoRun
    /\ order' = OrderAfterGetEvents(order, a.min, c.ret)
    /\ UNCHANGED <<iodepth, xferred, retry>>

\* fetch: the caller asks for an index below the count its latest poll returned
Event ==
  \E event \in 0..(last.events - 1) :
    /\ last' = [Call("event") EXCEPT !.r = fio_vsyncio_event(sd, event),
                                     !.index = event, !.events = last.events]
    /\ run' = NoRun
    /\ UNCHANGED <<iodepth, sd, io_u, xferred, order, retry>>

Next == Queue \/ Commit \/ GetEvents \/ Event

Spec == Init /\ [][Next]_vars

\* ---- the caller that reacts to BUSY: the same calls, following the request
\* ---- that was refused instead of the runs and the order of the batch ----

Submit ==
  \E r \in Requests(sd, Cleared), f \in SysResults :
    LET c == fio_vsyncio_queue(sd, iodepth, r, f.ret, f.err) IN
    /\ (~c.fsync => f.ret = 0)
    /\ sd' = c.sd
    /\ io_u' = Track(io_u, c.sd, c.io_u, c.ret = "QUEUED")
    /\ last' = [Call("queue") EXCEPT !.q = c.ret, !.cls = Class(sd, r),
                                     !.resub = Resubmitted(retry, r)]
    /\ retry' = RetryAfterQueue(r, c.ret)
    /\ UNCHANGED <<iodepth, xferred, run, order>>

Flush ==
  \E pos \in SysResults, x \in XferResults(sd) :
    LET c == fio_vsyncio_commit(sd, io_u, pos.ret, pos.err, x) IN
    /\ (c.kind = "noop" => pos.ret = 0 /\ x.bytes = 0)
    /\ (c.kind = "lseek" => x.bytes = 0)
    /\ sd' = c.sd
    /\ io_u' = Track(c.io_u, c.sd, NoReq, FALSE)
    /\ last' = [Call("commit") EXCEPT !.kind = c.kind]
    /\ retry' = RetryAfterCommit(retry, c)
    /\ UNCHANGED <<iodepth, xferred, run, order>>

Reap ==
  \E a \in PollArgs(iodepth) :
    LET c == fio_vsyncio_getevents(sd, a.min, a.max) IN
    /\ sd' = c.sd
    /\ io_u' = Track(io_u, c.sd, NoReq, FALSE)
    /\ last' = [Call("getevents") EXCEPT !.r = c.ret]
    /\ retry' = NoRetry
    /\ UNCHANGED <<iodepth, xferred, run, order>>

NextRetry == Submit \/ Flush \/ Reap

SpecRetry == Init /\ [][NextRetry]_vars

\* ---- vocabulary of the properties ----

\* the request in slot i of the pending batch
Member(i) == io_u[sd.io_us[i]]

\* the slots of the pending batch, in arrival order
Batch == {i \in Slots : i < sd.queued}

RECURSIVE LenBefore(_)
\* the bytes asked for by the requests queued before slot i
LenBefore(i) == IF i = 0 THEN 0 ELSE LenBefore(i - 1) + Member(i - 1).xfer_buflen

\* the bytes asked for by the whole pending batch
BatchBytes == LenBefore(sd.queued)

Max(a, b) == IF a > b THEN a ELSE b

\* the latest call was a commit whose vectored transfer was issued
Transferred == last.op = "commit" /\ last.kind = "xfer"

\* the share of b transferred bytes that falls to slot i
Share(i, b) == Min(Member(i).xfer_buflen, Max(0, b - LenBefore(i)))

ExampleReq(p, off, len) ==
  [id |-> p, ddir |-> "WRITE", file |-> 1, offset |-> off, xfer_buflen |-> len,
   resid |-> 0, error |-> 0]

ExampleCommit ==
  LET r1 == ExampleReq(1, 0, 100)
      r2 == ExampleReq(2, 100, 200)
      r3 == ExampleReq(3, 300, 50)
      q1 == fio_vsyncio_queue(fio_vsyncio_init(3), 3, r1, 0, 0)
      q2 == fio_vsyncio_queue(q1.sd, 3, r2, 0, 0)
      q3 == fio_vsyncio_queue(q2.sd, 3, r3, 0, 0)
      ios == [p \in 1..3 |-> IF p = 1 THEN r1 ELSE IF p = 2 THEN r2 ELSE r3]
  IN  [q |-> <<q1.ret, q2.ret, q3.ret>>,
       c |-> fio_vsyncio_commit(q3.sd, ios, 0, 0, [bytes |-> 250, err |-> 0])]

\* C2: a commit whose transfer returns b bytes, 0 <= b < the bytes of the
\* batch, returns 0 and gives every request of the batch error 0 and
\* resid = len - min(len, max(0, b - the lengths queued before it)); lengths
\* [100, 200, 50] with b = 250 give residuals [0, 50, 50].
C2_ShortTransferDistribution ==
  /\ (Transferred /\ last.bytes >= 0 /\ last.bytes < BatchBytes =>
        /\ last.r = 0
        /\ \A i \in Batch :
             /\ Member(i).error = 0
             /\ Member(i).resid = Member(i).xfer_buflen - Share(i, last.bytes))
  /\ ExampleCommit.q = <<"QUEUED", "QUEUED", "QUEUED">>
  /\ ExampleCommit.c.ret = 0
  /\ \A p \in 1..3 : ExampleCommit.c.io_u[p].error = 0
  /\ <<ExampleCommit.c.io_u[1].resid, ExampleCommit.c.io_u[2].resid,
       ExampleCommit.c.io_u[3].resid>> = <<0, 50, 50>>

\* a short transfer that fills the first request and part of the second
C2_Witness ==
  /\ Transferred /\ sd.queued = 2
  /\ last.bytes > Member(0).xfer_buflen /\ last.bytes < BatchBytes
  /\ Member(0).resid = 0 /\ Member(1).resid = BatchBytes - last.bytes

\* ---- C3 ----
\* C3: when the transfer of a non-empty batch fails with error code e, every
\* request of the batch gets error e, no resid is changed, and commit
\* returns -e.
C3_TransferFailure ==
  [][(last'.op = "commit" /\ last'.kind = "xfer" /\ last'.bytes = -1) =>
       /\ sd.queued > 0
       /\ last'.err \in Errnos
       /\ last'.r = -last'.err
       /\ \A i \in Batch :
            /\ io_u'[sd.io_us[i]].error = last'.err
            /\ io_u'[sd.io_us[i]].resid = Member(i).resid
       /\ \A p \in IoUs : io_u'[p] = [io_u[p] EXCEPT !.error = io_u'[p].error]
     ]_vars

\* a failed transfer of a batch of two, the first of which holds a resid from
\* an earlier short transfer
C3_Witness ==
  /\ Transferred /\ last.bytes = -1 /\ sd.queued = 2
  /\ Member(0).error = last.err /\ Member(1).error = last.err
  /\ Member(0).resid > 0 /\ Member(1).resid = 0

C5_PollCountsTransferred ==
  [][last'.op = "getevents" =>
       IF last'.min = 0
         THEN last'.r = 0 /\ sd' = sd /\ io_u' = io_u
         ELSE /\ last'.r = Cardinality({i \in Batch : xferred[i]})
              /\ sd'.queued = 0
    ]_vars

\* ---- C6 ----
\* C6: every request a poll counts, and every request a fetch returns, was
\* part of a vectored transfer issued by commit.
C6_OnlyCommitResolves ==
  /\ (last.op = "getevents" => \A i \in Slots : i < last.r => xferred[i])
  /\ (last.op = "event" => xferred[last.index])

\* ---- C7 ----
\* C7: with a non-empty batch, a request that does not merge (other offset,
\* file or direction, or a sync-barrier) is answered BUSY, and the batch, the
\* queued requests and the request itself are left as they were.
C7_NoMergeIsBusy ==
  [][(last'.op = "queue" /\ sd.queued > 0 /\ last'.cls \in {"nomerge", "sync"}) =>
       /\ last'.q = "BUSY"
       /\ sd' = sd
       /\ io_u' = io_u
       /\ ~last'.wrote
       /\ ~last'.fsync
    ]_vars

\* a request on another file or at another offset was refused by a non-empty batch
C7_Witness ==
  last.op = "queue" /\ last.q = "BUSY" /\ last.cls = "nomerge" /\ sd.queued > 0

\* ---- C8 ----
\* C8: a mergeable request is answered BUSY, with the batch unchanged, when
\* the queued count equals the depth, and QUEUED, the count growing by one,
\* when the count is below the depth.
C8_CapacityBoundary ==
  [][(last'.op = "queue" /\ last'.cls = "merge") =>
       IF sd.queued = iodepth
         THEN last'.q = "BUSY" /\ sd' = sd /\ io_u' = io_u /\ ~last'.wrote
         ELSE last'.q = "QUEUED" /\ sd'.queued = sd.queued + 1
    ]_vars

\* a mergeable request was refused by a full batch
C8_Witness ==
  /\ last.op = "queue" /\ last.q = "BUSY" /\ last.cls = "merge"
  /\ sd.queued = iodepth /\ iodepth = 2

\* ---- C9 ----
\* C9: the queued count never exceeds the depth, and every slot written by a
\* submit lies below the depth, the size of the arrays allocated at init.
C9_OccupancyWithinDepth ==
  /\ iodepth > 0
  /\ sd.queued <= iodepth
  /\ DOMAIN sd.io_us = 0..(iodepth - 1)
  /\ DOMAIN sd.iovecs = 0..(iodepth - 1)
  /\ (last.op = "queue" /\ last.q = "QUEUED" => last.index \in 0..(iodepth - 1))

\* the last slot of the arrays has just been written
C9_Witness ==
  /\ last.op = "queue" /\ last.q = "QUEUED" /\ last.index = iodepth - 1
  /\ sd.queued = iodepth /\ iodepth = 2

\* ---- C10 ----
\* C10: the requests of a non-empty batch share the tracked last file and
\* last direction (read or write), each starts where the one before it ends,
\* and the tracked end-offset is the end of the last one.
C10_BatchIsContiguous ==
  sd.queued > 0 =>
    /\ sd.last_ddir \in {"READ", "WRITE"}
    /\ \A i \in Batch :
         /\ Member(i).id = sd.io_us[i]
         /\ Member(i).file = sd.last_file
         /\ Member(i).ddir = sd.last_ddir
         /\ i > 0 => Member(i).offset = Member(i - 1).offset + Member(i - 1).xfer_buflen
    /\ sd.last_offset = Member(sd.queued - 1).offset + Member(sd.queued - 1).xfer_buflen

\* a batch of two requests, the second starting where the first ends
C10_Witness ==
  /\ sd.queued = 2
  /\ Member(1).offset = Member(0).offset + Member(0).xfer_buflen
  /\ Member(0).xfer_buflen = 2

\* ---- C11 ----
\* C11: when commit is called on a non-empty batch and lseek fails with error
\* code e, commit returns -e, issues no vectored transfer, writes no resid or
\* error, and leaves the batch as it was (members, count, bytes): a commit
\* that follows is no no-op, and transfers every member once its lseek succeeds.
C11_PositioningFailure ==
  [][/\ (last'.op = "commit" /\ last'.kind = "lseek" =>
           /\ sd.queued > 0
           /\ last'.err \in Errnos
           /\ last'.r = -last'.err
           /\ sd' = sd
           /\ io_u' = io_u
           /\ xferred' = xferred)
     /\ (last.op = "commit" /\ last.kind = "lseek" /\ last'.op = "commit" =>
           /\ last'.kind # "noop"
           /\ (last'.kind = "xfer" => \A i \in Batch : xferred'[i]))
    ]_vars

\* the lseek of a commit of two queued requests, neither transferred yet, has failed
C11_Witness ==
  /\ last.op = "commit" /\ last.kind = "lseek" /\ last.r = -5
  /\ sd.queued = 2 /\ ~xferred[0] /\ ~xferred[1]

\* ---- C12 ----
\* C12: a request that was answered BUSY and is handed in again right after a
\* commit whose positioning succeeded is not answered BUSY: a sync-barrier is
\* COMPLETED, a read or write is QUEUED.
C12_CommitUnblocks ==
  (last.op = "queue" /\ last.resub) =>
     last.q = (IF last.cls = "sync" THEN "COMPLETED" ELSE "QUEUED")

\* ---- C13 ----
\* C13: a sync-barrier submitted while the batch is empty issues fsync at once
\* and is answered COMPLETED, whatever fsync returns; the count stays 0 and
\* the bytes, the slots and last_offset, last_file, last_ddir are unchanged.
C13_SyncOnEmptyBatch ==
  [][(last'.op = "queue" /\ last'.cls = "sync" /\ sd.queued = 0) =>
       /\ last'.q = "COMPLETED"
       /\ last'.fsync
       /\ last'.index = -1
       /\ sd' = sd
       /\ sd'.queued = 0
       /\ io_u' = io_u
    ]_vars

\* a sync-barrier was completed at once after an earlier batch had been
\* committed and polled, whose bytes and end-offset are still recorded
C13_Witness ==
  /\ last.op = "queue" /\ last.cls = "sync" /\ last.q = "COMPLETED" /\ last.fsync
  /\ sd.queued = 0 /\ sd.queued_bytes > 0 /\ sd.last_offset > 0

\* ---- C14 ----
\* C14: commit on an empty batch returns 0 without lseek and without a
\* transfer; no io_u and no field of the pending batch changes, and every
\* poll returns afterwards what it would have returned before.
C14_CommitOnEmptyBatch ==
  [][(last'.op = "commit" /\ sd.queued = 0) =>
       /\ last'.kind = "noop"
       /\ last'.r = 0
       /\ sd' = sd
       /\ io_u' = io_u
       /\ xferred' = xferred
       /\ \A a \in PollArgs(iodepth) :
            fio_vsyncio_getevents(sd', a.min, a.max).ret =
              fio_vsyncio_getevents(sd, a.min, a.max).ret
    ]_vars

\* a commit found the batch empty after an earlier batch had been polled
C14_Witness ==
  /\ last.op = "commit" /\ last.kind = "noop" /\ last.r = 0
  /\ sd.queued = 0 /\ sd.last_offset > 0

\* ---- C15 ----
\* C15: after a commit of a batch of n requests and a poll that returned n,
\* with no submit in between, fetch(i) returns for every i < n the i-th
\* request submitted into that batch; the requests of the batch are distinct,
\* so the n fetches return each of them once, in submission order.
C15_FetchInArrivalOrder ==
  (last.op = "event" /\ order.st = "polled") =>
     /\ last.events = Len(order.ids)
     /\ last.index \in 0..(Len(order.ids) - 1)
     /\ last.r = order.ids[last.index + 1]
     /\ \A j, k \in 1..Len(order.ids) : order.ids[j] = order.ids[k] => j = k

\* the second request of a committed and polled batch of two has been fetched
C15_Witness ==
  /\ last.op = "event" /\ order.st = "polled" /\ Len(order.ids) = 2
  /\ last.index = 1 /\ last.r = order.ids[2]

\* ---- C16 ----
\* C16: whenever the batch is empty, the next read or write request fails the
\* mergeability test whatever its offset, file and direction, and starts a
\* fresh batch: it is QUEUED, the count is 1 and the cumulative bytes are the
\* length of that request.
C16_EmptyBatchStartsFresh ==
  [][(last'.op = "queue" /\ sd.queued = 0 /\ last'.cls # "sync") =>
       /\ last'.cls = "nomerge"
       /\ last'.q = "QUEUED"
       /\ sd'.queued = 1
       /\ sd'.queued_bytes = io_u'[sd'.io_us[0]].xfer_buflen
    ]_vars

\* ---- C17 ----
\* C17: when the transfer of a commit returns exactly the cumulative queued
\* bytes, every request of the batch ends with resid 0 and error 0, whatever
\* these fields held when the request was submitted.
C17_FullTransferClears ==
  (Transferred /\ last.bytes # -1 /\ last.bytes = sd.queued_bytes) =>
     \A i \in Batch : Member(i).resid = 0 /\ Member(i).error = 0

\* ---- C18 ----
\* C18: whenever the batch is non-empty, the cumulative queued bytes are the
\* sum of the lengths of the requests in the batch.
C18_QueuedBytesIsSum ==
  sd.queued > 0 => sd.queued_bytes = BatchBytes

\* ---- C19 ----
\* C19: no request is transferred twice: a commit that issues a vectored
\* transfer includes no request that an earlier commit has transferred.
C19_TransferredOnce ==
  [][(last'.op = "commit" /\ last'.kind = "xfer") => \A i \in Batch : ~xferred[i]]_vars

\* ---- C20 ----
\* C20: a poll called with min <= max returns at most max events.
C20_PollWithinMax ==
  last.op = "getevents" => last.r <= last.max

====
